---- MODULE Spec2Model ----
(***************************************************************************)
(* Model of the culvert score ledger of gpq-bot (src/src/n8n.ts): the      *)
(* name normalizer and fuzzy matcher, the column addressing, the upsert    *)
(* into the sheet and the upload / manualupload command handlers.          *)
(*                                                                         *)
(* Text is modelled as a sequence of one-character strings, so that        *)
(* trimming, lower-casing and substring tests are computed, not assumed.   *)
(* Row and column indices are 0-based as in the source; the sequences that *)
(* hold rows and cells are 1-based, so values[r] of the source is          *)
(* values[r + 1] here.                                                     *)
(***************************************************************************)
EXTENDS Integers, Sequences, FiniteSets, TLC

(***************************************************************************)
(* Bounds of the model.                                                    *)
(***************************************************************************)
MaxBatch == 2      \* entries in one batch
MaxEntries == 3    \* entries over all the calls of one behaviour

(***************************************************************************)
(* Text helpers.                                                           *)
(***************************************************************************)
UpperLetters ==
  << "A","B","C","D","E","F","G","H","I","J","K","L","M",
     "N","O","P","Q","R","S","T","U","V","W","X","Y","Z" >>

LowerLetters ==
  << "a","b","c","d","e","f","g","h","i","j","k","l","m",
     "n","o","p","q","r","s","t","u","v","w","x","y","z" >>

IsSpace(c) == c \in {" ", "\t"}

LowerChar(c) ==
  IF \E i \in 1..26 : UpperLetters[i] = c
    THEN LowerLetters[CHOOSE i \in 1..26 : UpperLetters[i] = c]
    ELSE c

RECURSIVE trimStart(_)
trimStart(s) ==
  IF s # <<>> /\ IsSpace(Head(s)) THEN trimStart(Tail(s)) ELSE s

RECURSIVE trimEnd(_)
trimEnd(s) ==
  IF s # <<>> /\ IsSpace(s[Len(s)]) THEN trimEnd(SubSeq(s, 1, Len(s) - 1)) ELSE s

trim(s) == trimEnd(trimStart(s))

\* raw.replace(/\s+/g, " ")
RECURSIVE collapseWhitespace(_)
collapseWhitespace(s) ==
  IF s = <<>> THEN <<>>
  ELSE IF IsSpace(Head(s)) THEN <<" ">> \o collapseWhitespace(trimStart(s))
  ELSE <<Head(s)>> \o collapseWhitespace(Tail(s))

toLocaleLowerCase(s) == [i \in 1..Len(s) |-> LowerChar(s[i])]

normalizeName(raw) == toLocaleLowerCase(collapseWhitespace(trim(raw)))

\* String.prototype.includes: t occurs in s as a contiguous substring
includes(s, t) ==
  \E i \in 0..(Len(s) - Len(t)) : SubSeq(s, i + 1, i + Len(t)) = t

Abs(x) == IF x < 0 THEN -x ELSE x

(***************************************************************************)
(* The name index: an insertion-ordered Map<string, number>, held as a     *)
(* sequence of [key, row] entries in insertion order.                      *)
(***************************************************************************)
NoRow == -1

MapHas(m, k) == \E i \in 1..Len(m) : m[i].key = k

MapGet(m, k) ==
  IF MapHas(m, k) THEN m[CHOOSE i \in 1..Len(m) : m[i].key = k].row ELSE NoRow

\* Map.prototype.set: an existing key keeps its position, a new key goes last
MapSet(m, k, r) ==
  IF MapHas(m, k)
    THEN [i \in 1..Len(m) |-> IF m[i].key = k THEN [key |-> k, row |-> r] ELSE m[i]]
    ELSE Append(m, [key |-> k, row |-> r])

\* a sort step that puts e before the elements it ties with
RECURSIVE InsertBeforeTies(_, _, _)
InsertBeforeTies(sorted, e, n) ==
  IF sorted = <<>> THEN <<e>>
  ELSE IF Abs(Len(Head(sorted).key) - n) - Abs(Len(e.key) - n) < 0
    THEN <<Head(sorted)>> \o InsertBeforeTies(Tail(sorted), e, n)
    ELSE <<e>> \o sorted

\* One step of a stable sort: e goes after every element that does not
\* compare greater than it.
RECURSIVE InsertByDistance(_, _, _)
InsertByDistance(sorted, e, n) ==
  IF sorted = <<>> THEN <<e>>
  ELSE IF Abs(Len(Head(sorted).key) - n) - Abs(Len(e.key) - n) <= 0
    THEN <<Head(sorted)>> \o InsertByDistance(Tail(sorted), e, n)
    ELSE <<e>> \o sorted

\* Array.prototype.sort with the comparator of findRowByName (stable)
RECURSIVE SortByDistance(_, _, _)
SortByDistance(s, n, acc) ==
  IF s = <<>> THEN acc
  ELSE SortByDistance(Tail(s), n, InsertByDistance(acc, Head(s), n))

\* [...nameToRow.entries()].filter(...), in insertion order
RECURSIVE filterPartial(_, _, _)
filterPartial(entries, normalizedInput, acc) ==
  IF entries = <<>> THEN acc
  ELSE filterPartial(Tail(entries), normalizedInput,
         IF \/ includes(Head(entries).key, normalizedInput)
            \/ includes(normalizedInput, Head(entries).key)
           THEN Append(acc, Head(entries))
           ELSE acc)

partialMatches(nameToRow, normalizedInput) ==
  filterPartial(nameToRow, normalizedInput, <<>>)

findRowByName(nameToRow, inputName) ==
  LET normalizedInput == normalizeName(inputName)
      exact == MapGet(nameToRow, normalizedInput)
      partial == partialMatches(nameToRow, normalizedInput)
  IN  IF exact # NoRow THEN exact
      ELSE IF Len(partial) = 0 THEN NoRow
      ELSE SortByDistance(partial, Len(normalizedInput), <<>>)[1].row

(***************************************************************************)
(* Column addressing.                                                      *)
(***************************************************************************)
\* the digits of x in base 26 with A as the zero digit
RECURSIVE columnLabelLoopNaive(_, _)
columnLabelLoopNaive(x, s) ==
  IF x > 0
    THEN columnLabelLoopNaive(x \div 26, <<UpperLetters[(x % 26) + 1]>> \o s)
    ELSE s

RECURSIVE columnLabelLoop(_, _)
columnLabelLoop(x, s) ==
  IF x > 0
    THEN columnLabelLoop((x - 1) \div 26, <<UpperLetters[((x - 1) % 26) + 1]>> \o s)
    ELSE s

columnLabel(n) == columnLabelLoop(n, <<>>)

(***************************************************************************)
(* The sheet.  A snapshot is a sequence of rows, a row a sequence of text  *)
(* cells; the store keeps what is written verbatim, an empty text is an    *)
(* empty cell, and a read leaves out trailing empty cells and rows.        *)
(***************************************************************************)
Max(a, b) == IF a >= b THEN a ELSE b

NameHeader == <<"N", "a", "m", "e">>

\* row?.[c] ?? ""
Cell(row, c) == IF c + 1 <= Len(row) THEN row[c + 1] ELSE <<>>

\* row[c] = v on an array that grows as needed
SetCell(row, c, v) ==
  [i \in 1..Max(Len(row), c + 1) |->
     IF i = c + 1 THEN v ELSE IF i <= Len(row) THEN row[i] ELSE <<>>]

RECURSIVE DropTrailingEmpty(_)
DropTrailingEmpty(s) ==
  IF s # <<>> /\ s[Len(s)] = <<>> THEN DropTrailingEmpty(SubSeq(s, 1, Len(s) - 1)) ELSE s

Canonical(grid) ==
  DropTrailingEmpty([r \in 1..Len(grid) |-> DropTrailingEmpty(grid[r])])

\* the 0-based column index an A1-notation column label addresses
RECURSIVE LabelToNumber(_, _)
LabelToNumber(label, acc) ==
  IF label = <<>> THEN acc
  ELSE LabelToNumber(Tail(label),
         acc * 26 + (CHOOSE i \in 1..26 : UpperLetters[i] = Head(label)))

ColumnIndex(label) == LabelToNumber(label, 0) - 1

WriteCell(grid, r, c, v) ==
  LET tall == [i \in 1..Max(Len(grid), r + 1) |-> IF i <= Len(grid) THEN grid[i] ELSE <<>>]
  IN  [tall EXCEPT ![r + 1] = SetCell(tall[r + 1], c, v)]

\* one range write: the values go down the column from the range's first cell
RECURSIVE WriteRange(_, _, _)
WriteRange(grid, u, k) ==
  IF k > Len(u.values) THEN grid
  ELSE WriteRange(WriteCell(grid, u.row - 1 + (k - 1), ColumnIndex(u.col), u.values[k]),
                  u, k + 1)

\* spreadsheets.values.batchUpdate: the range writes are applied in order
RECURSIVE ApplyUpdates(_, _)
ApplyUpdates(grid, updates) ==
  IF updates = <<>> THEN grid
  ELSE ApplyUpdates(WriteRange(grid, Head(updates), 1), Tail(updates))

batchUpdate(grid, updates) == Canonical(ApplyUpdates(grid, updates))

(***************************************************************************)
(* upsertCulvertScoresByName, between its read and its batch write.        *)
(***************************************************************************)
\* values.length === 0 -> push([]);  !values[0][0] -> "Name"
withHeader(existing) ==
  LET values == IF Len(existing) = 0 THEN << <<>> >> ELSE existing
  IN  IF Cell(values[1], 0) = <<>>
        THEN [values EXCEPT ![1] = SetCell(values[1], 0, NameHeader)]
        ELSE values

\* a findIndex that never finds the label
findIndexNever(header, dateLabel) == -1

\* header.findIndex((v) => v === dateLabel)
findIndex(header, dateLabel) ==
  IF \E i \in 1..Len(header) : header[i] = dateLabel
    THEN (CHOOSE i \in 1..Len(header) :
            header[i] = dateLabel /\ \A j \in 1..(i - 1) : header[j] # dateLabel) - 1
    ELSE -1

\* a new column that always lands on column 1
newDateColFirst(header) == 1

newDateCol(header) == Max(1, Len(header))

locateDateCol(values, dateLabel) ==
  LET header == values[1]
      found == findIndex(header, dateLabel)
  IN  IF found = -1
        THEN [dateCol |-> newDateCol(header),
              values |-> [values EXCEPT ![1] = SetCell(header, newDateCol(header), dateLabel)]]
        ELSE [dateCol |-> found, values |-> values]

RECURSIVE buildNameToRow(_, _, _)
buildNameToRow(values, r, nameToRow) ==
  IF r >= Len(values) THEN nameToRow
  ELSE LET name == normalizeName(Cell(values[r + 1], 0))
       IN  buildNameToRow(values, r + 1,
             IF name # <<>> THEN MapSet(nameToRow, name, r) ELSE nameToRow)

\* a score write addressed with the 0-based row index
scoreUpdateZeroBased(dateCol, rowIdx, culvert) ==
  [col |-> columnLabel(dateCol + 1), row |-> rowIdx, values |-> <<culvert>>]

scoreUpdate(dateCol, rowIdx, culvert) ==
  [col |-> columnLabel(dateCol + 1), row |-> rowIdx + 1, values |-> <<culvert>>]

\* the loop body without nameToRow.set for the appended row
scoreStepUnregistered(st, score) ==
  LET normalizedScoreName == normalizeName(score.name)
      found == findRowByName(st.nameToRow, normalizedScoreName)
      rowIdx == IF found = NoRow THEN Len(st.values) ELSE found
  IN  [values    |-> IF found = NoRow THEN Append(st.values, <<score.name>>) ELSE st.values,
       nameToRow |-> st.nameToRow,
       updates   |-> Append(st.updates, scoreUpdate(st.dateCol, rowIdx, score.culvert)),
       dateCol   |-> st.dateCol,
       rows      |-> Append(st.rows, rowIdx),
       created   |-> Append(st.created, found = NoRow)]

\* the loop body appending the normalized name instead of the original one
scoreStepNormalized(st, score) ==
  LET normalizedScoreName == normalizeName(score.name)
      found == findRowByName(st.nameToRow, normalizedScoreName)
      rowIdx == IF found = NoRow THEN Len(st.values) ELSE found
  IN  [values    |-> IF found = NoRow THEN Append(st.values, <<normalizedScoreName>>)
                                      ELSE st.values,
       nameToRow |-> IF found = NoRow
                       THEN MapSet(st.nameToRow, normalizedScoreName, rowIdx)
                       ELSE st.nameToRow,
       updates   |-> Append(st.updates, scoreUpdate(st.dateCol, rowIdx, score.culvert)),
       dateCol   |-> st.dateCol,
       rows      |-> Append(st.rows, rowIdx),
       created   |-> Append(st.created, found = NoRow)]

\* the body of `for (const score of scores)`; rows and created keep, per
\* entry, the row it went to and whether that row was appended for it
scoreStep(st, score) ==
  LET normalizedScoreName == normalizeName(score.name)
      found == findRowByName(st.nameToRow, normalizedScoreName)
      rowIdx == IF found = NoRow THEN Len(st.values) ELSE found
  IN  [values    |-> IF found = NoRow THEN Append(st.values, <<score.name>>) ELSE st.values,
       nameToRow |-> IF found = NoRow
                       THEN MapSet(st.nameToRow, normalizedScoreName, rowIdx)
                       ELSE st.nameToRow,
       updates   |-> Append(st.updates, scoreUpdate(st.dateCol, rowIdx, score.culvert)),
       dateCol   |-> st.dateCol,
       rows      |-> Append(st.rows, rowIdx),
       created   |-> Append(st.created, found = NoRow)]

RECURSIVE scoreLoop(_, _)
scoreLoop(st, scores) ==
  IF scores = <<>> THEN st ELSE scoreLoop(scoreStep(st, Head(scores)), Tail(scores))

loopStart(existing, dateLabel) ==
  LET located == locateDateCol(withHeader(existing), dateLabel)
  IN  [values    |-> located.values,
       nameToRow |-> buildNameToRow(located.values, 1, <<>>),
       updates   |-> <<>>,
       dateCol   |-> located.dateCol,
       rows      |-> <<>>,
       created   |-> <<>>]

\* a name column of normalized names
nameColumnNormalized(values) ==
  [r \in 1..(Len(values) - 1) |-> normalizeName(Cell(values[r + 1], 0))]

\* values.slice(1).map((row) => [String(row?.[0] ?? "")])
nameColumn(values) == [r \in 1..(Len(values) - 1) |-> Cell(values[r + 1], 0)]

\* the closing writes without the bulk write of the name column
trailingUpdatesNoNames(values, dateCol, dateLabel) ==
  << [col |-> columnLabel(1), row |-> 1, values |-> <<NameHeader>>],
     [col |-> columnLabel(dateCol + 1), row |-> 1, values |-> <<dateLabel>>] >>

trailingUpdates(values, dateCol, dateLabel) ==
  << [col |-> columnLabel(1), row |-> 1, values |-> <<NameHeader>>],
     [col |-> columnLabel(dateCol + 1), row |-> 1, values |-> <<dateLabel>>],
     [col |-> columnLabel(1), row |-> 2, values |-> nameColumn(values)] >>

\* everything the call computes from the snapshot it read
upsertPlan(existing, dateLabel, scores) ==
  LET st == scoreLoop(loopStart(existing, dateLabel), scores)
  IN  [st EXCEPT !.updates = st.updates \o trailingUpdates(st.values, st.dateCol, dateLabel)]

(***************************************************************************)
(* Dates: the command date, the ISO date and the header label.             *)
(***************************************************************************)
DigitChars == <<"0","1","2","3","4","5","6","7","8","9">>

IsDigit(c) == \E i \in 1..10 : DigitChars[i] = c

DigitValue(c) == (CHOOSE i \in 1..10 : DigitChars[i] = c) - 1

AllDigits(s) == \A i \in 1..Len(s) : IsDigit(s[i])

\* Number(text) of a text of digits
RECURSIVE NumberOf(_, _)
NumberOf(s, acc) ==
  IF s = <<>> THEN acc ELSE NumberOf(Tail(s), acc * 10 + DigitValue(Head(s)))

\* n.toString() / String(n) of a number >= 0
RECURSIVE toString(_)
toString(n) ==
  IF n < 10 THEN <<DigitChars[n + 1]>>
  ELSE toString(n \div 10) \o <<DigitChars[(n % 10) + 1]>>

RECURSIVE padStart(_, _)
padStart(s, width) == IF Len(s) >= width THEN s ELSE padStart(<<"0">> \o s, width)

\* the parts of s between the occurrences of sep
RECURSIVE SplitOn(_, _, _, _)
SplitOn(s, sep, part, acc) ==
  IF s = <<>> THEN Append(acc, part)
  ELSE IF Head(s) = sep THEN SplitOn(Tail(s), sep, <<>>, Append(acc, part))
  ELSE SplitOn(Tail(s), sep, Append(part, Head(s)), acc)

IsLeapYear(y) == (y % 4 = 0 /\ y % 100 # 0) \/ y % 400 = 0

DaysInMonth(y, m) ==
  IF m = 2 THEN (IF IsLeapYear(y) THEN 29 ELSE 28)
  ELSE IF m \in {4, 6, 9, 11} THEN 30 ELSE 31

\* new Date(Date.UTC(year, monthIndex, day)) for monthIndex 0..11 and day
\* 1..31: a day past the month's end runs over into the next month
DateUTC(year, monthIndex, day) ==
  LET dim == DaysInMonth(year, monthIndex + 1)
  IN  IF day <= dim
        THEN [year |-> year, month |-> monthIndex, date |-> day]
        ELSE IF monthIndex = 11
          THEN [year |-> year + 1, month |-> 0, date |-> day - dim]
          ELSE [year |-> year, month |-> monthIndex + 1, date |-> day - dim]

\* a date check that only looks at the ranges
isValidDatePartsRangeOnly(year, month, day) ==
  /\ ~(year < 1000 \/ year > 9999)
  /\ ~(month < 1 \/ month > 12)
  /\ ~(day < 1 \/ day > 31)

isValidDateParts(year, month, day) ==
  IF year < 1000 \/ year > 9999 THEN FALSE
  ELSE IF month < 1 \/ month > 12 THEN FALSE
  ELSE IF day < 1 \/ day > 31 THEN FALSE
  ELSE LET parsed == DateUTC(year, month - 1, day)
       IN  parsed.year = year /\ parsed.month = month - 1 /\ parsed.date = day

NoDate == [ok |-> FALSE, isoDate |-> <<>>]

\* a match that also takes a year of four digits
matchN8nDateLongYear(raw) ==
  LET m == SplitOn(raw, "/", <<>>, <<>>)
  IN  /\ Len(m) = 3
      /\ \A i \in 1..3 : AllDigits(m[i])
      /\ Len(m[1]) \in 1..2
      /\ Len(m[2]) \in 1..2
      /\ Len(m[3]) \in {2, 4}

\* raw.match(/^(\d{1,2})\/(\d{1,2})\/(\d{2})$/)
matchN8nDate(raw) ==
  LET m == SplitOn(raw, "/", <<>>, <<>>)
  IN  /\ Len(m) = 3
      /\ \A i \in 1..3 : AllDigits(m[i])
      /\ Len(m[1]) \in 1..2
      /\ Len(m[2]) \in 1..2
      /\ Len(m[3]) = 2

parseN8nDate(raw) ==
  IF ~matchN8nDate(raw) THEN NoDate
  ELSE LET m == SplitOn(raw, "/", <<>>, <<>>)
           month == NumberOf(m[1], 0)
           day == NumberOf(m[2], 0)
           year == 2000 + NumberOf(m[3], 0)
       IN  IF ~isValidDateParts(year, month, day) THEN NoDate
           ELSE [ok |-> TRUE,
                 isoDate |-> padStart(toString(year), 4) \o <<"-">>
                             \o padStart(toString(month), 2) \o <<"-">>
                             \o padStart(toString(day), 2)]

\* isoDate.match(/^(\d{4})-(\d{2})-(\d{2})$/)
matchIsoDate(isoDate) ==
  LET m == SplitOn(isoDate, "-", <<>>, <<>>)
  IN  /\ Len(m) = 3
      /\ \A i \in 1..3 : AllDigits(m[i])
      /\ Len(m[1]) = 4
      /\ Len(m[2]) = 2
      /\ Len(m[3]) = 2

isoToSheetDateLabel(isoDate) ==
  IF ~matchIsoDate(isoDate) THEN isoDate
  ELSE LET m == SplitOn(isoDate, "-", <<>>, <<>>)
           month == toString(NumberOf(m[2], 0))
           day == toString(NumberOf(m[3], 0))
           year2 == padStart(toString(NumberOf(m[1], 0) % 100), 2)
       IN  month \o <<"/">> \o day \o <<"/">> \o year2

(***************************************************************************)
(* toExtractedEntries, from the decoded rows on: a row is what JSON gave,  *)
(* with or without a name and a culvert.                                   *)
(***************************************************************************)
RECURSIVE extractRows(_, _)
extractRows(rows, normalized) ==
  IF rows = <<>> THEN normalized
  ELSE LET row == Head(rows)
       IN  extractRows(Tail(rows),
             IF ~row.hasName \/ ~row.hasCulvert THEN normalized
             ELSE Append(normalized, [name |-> trim(row.name), culvert |-> trim(row.culvert)]))

RECURSIVE keepUsable(_, _)
keepUsable(entries, acc) ==
  IF entries = <<>> THEN acc
  ELSE keepUsable(Tail(entries),
         IF Head(entries).name # <<>> /\ Head(entries).culvert # <<>>
           THEN Append(acc, Head(entries)) ELSE acc)

toExtractedEntries(rows) == keepUsable(extractRows(rows, <<>>), <<>>)

(***************************************************************************)
(* Inputs of the model.                                                    *)
(***************************************************************************)
Jon        == <<"j","o","n">>
Amy        == <<"A","m","y">>
AmyLower   == <<"a","m","y">>
JonSmith   == <<"J","o","n"," "," ","S","m","i","t","h">>
Jonathan   == <<"j","o","n","a","t","h","a","n">>

\* names as toExtractedEntries delivers them: trimmed and not empty
EntryNames == {Jon, Jonathan, Amy, AmyLower}

Date1 == <<"3","/","1","/","2","4">>
Date2 == <<"3","/","8","/","2","4">>
DateLabels == {Date1, Date2}

Digits == <<"1","2","3","4","5","6","7","8","9">>

\* the k-th entry of the c-th call carries a score text of its own
Culvert(c, k) == <<Digits[c], Digits[k]>>

Batches == UNION {[1..n -> EntryNames] : n \in 1..MaxBatch}

ScoresOf(names, c) ==
  [k \in 1..Len(names) |-> [name |-> names[k], culvert |-> Culvert(c, k)]]

\* sheets the bot can meet: no two data rows share a normalized name
SheetEmpty == <<>>

SheetJonSmith ==
  << <<NameHeader, Date1>>, << <<"J","o","n"," ","S","m","i","t","h">>, <<"7">> >> >>

SheetNamesOnly ==
  << <<NameHeader>>, <<Jonathan>>, << <<"j","o","n"," ","s","m","i","t","h">> >> >>

SheetBlankHeader == << <<>>, <<>>, << <<" ","J","O","N">> >> >>

SheetGapHeader == << <<NameHeader, <<>>, Date2>>, <<Jon, <<>>, <<"5">> >> >>

InitLedgers ==
  {SheetEmpty, SheetJonSmith, SheetNamesOnly, SheetBlankHeader, SheetGapHeader}

(***************************************************************************)
(* State.                                                                  *)
(***************************************************************************)
VARIABLES
  store,    \* the sheet
  calls,    \* number of upsert calls made so far
  used,     \* number of entries those calls carried
  hist,     \* the last upsert call: its arguments, the snapshot it read, its plan
  probe,    \* one lookup in a name index: the index, the input, the row found
  race,     \* two upsert calls in flight at once, and the order of their steps
  h,        \* one messageCreate handler run: the message, where it stands, its locals
  chart,    \* one chart command (getuser, compare, cumulative): its input and its result
  calc      \* one evaluation of a pure function: its input and its result

vars == <<store, calls, used, hist, probe, race, h, chart, calc>>

NoPlan ==
  [values |-> <<>>, nameToRow |-> <<>>, updates |-> <<>>, dateCol |-> 0,
   rows |-> <<>>, created |-> <<>>]

NoProbe == [op |-> "none", index |-> <<>>, input |-> <<>>, row |-> NoRow]

NoRace == [call |-> <<>>, log |-> <<>>]

NoMessage == [kind |-> "none"]

NoHandler ==
  [pc |-> "none", msg |-> NoMessage, before |-> <<>>, isoDate |-> <<>>,
   dateLabel |-> <<>>, idx |-> 0,
   img |-> <<>>, failures |-> <<>>, writtenRows |-> 0, replies |-> <<>>,
   workerCalls |-> 0, reads |-> 0, writes |-> 0, entries |-> <<>>, plan |-> NoPlan]

NoChart == [pc |-> "none"]

NoCalc == [op |-> "none"]

NoCall ==
  [op |-> "none", dateLabel |-> <<>>, scores |-> <<>>, pre |-> <<>>,
   plan |-> NoPlan, prevPlan |-> NoPlan, first |-> <<>>]

Init ==
  /\ store \in InitLedgers
  /\ calls = 0
  /\ used = 0
  /\ hist = NoCall
  /\ probe = NoProbe
  /\ race = NoRace
  /\ h = NoHandler
  /\ chart = NoChart
  /\ calc = NoCalc

\* a whole call of upsertCulvertScoresByName, no other call in between
Upsert(dateLabel, names) ==
  /\ used + Len(names) <= MaxEntries
  /\ LET scores == ScoresOf(names, calls + 1)
         plan == upsertPlan(store, dateLabel, scores)
     IN  /\ store' = batchUpdate(store, plan.updates)
         /\ hist' = [op |-> "upsert", dateLabel |-> dateLabel, scores |-> scores,
                     pre |-> store, plan |-> plan, prevPlan |-> NoPlan,
                     first |-> <<>>]
  /\ calls' = calls + 1
  /\ used' = used + Len(names)
  /\ UNCHANGED <<probe, race, h, chart, calc>>

\* the same call once more, against the sheet the first one left
UpsertAgain ==
  /\ hist.op = "upsert"
  /\ LET plan == upsertPlan(store, hist.dateLabel, hist.scores)
     IN  /\ store' = batchUpdate(store, plan.updates)
         /\ hist' = [hist EXCEPT !.op = "again", !.pre = store, !.plan = plan,
                                 !.prevPlan = hist.plan, !.first = hist.pre]
  /\ UNCHANGED <<calls, used, probe, race, h, chart, calc>>

\* scores.length === 0: the call returns before it reads
UpsertNothing(dateLabel) ==
  /\ hist' = [NoCall EXCEPT !.op = "nothing", !.dateLabel = dateLabel, !.pre = store]
  /\ UNCHANGED <<store, calls, used, probe, race, h, chart, calc>>

Next ==
  \/ \E d \in DateLabels, names \in Batches : Upsert(d, names)
  \/ UpsertAgain
  \/ \E d \in DateLabels : UpsertNothing(d)

Spec == Init /\ [][Next]_vars

TypeOK ==
  /\ store = Canonical(store)
  /\ calls \in 0..MaxEntries
  /\ used \in 0..MaxEntries

(***************************************************************************)
(* Properties of sequences of upsert calls (specification Spec).          *)
(***************************************************************************)
DataRows(grid) == 1..(Len(grid) - 1)

NameAt(grid, r) == normalizeName(Cell(grid[r + 1], 0))

Upserted == hist.op \in {"upsert", "again"}

\* the entry resolved to a row whose name is not its own normalized name
FuzzyAt(plan, scores, k) ==
  NameAt(plan.values, plan.rows[k]) # normalizeName(scores[k].name)

HeaderOf(grid) == IF Len(grid) = 0 THEN <<>> ELSE grid[1]

\* C1: after any sequence of upsert calls, one after the other, no two data
\* rows of the sheet hold the same normalized name.
C1_NoDuplicateNames ==
  \A r1 \in DataRows(store), r2 \in DataRows(store) :
    (r1 # r2 /\ NameAt(store, r1) # <<>>) => NameAt(store, r1) # NameAt(store, r2)

\* a batch that named one normalized name twice, in two spellings, has
\* appended a row for it
C1_Witness ==
  /\ hist.op = "upsert"
  /\ calls >= 2
  /\ \E i \in 1..Len(hist.scores), j \in 1..Len(hist.scores) :
       /\ i < j
       /\ hist.scores[i].name # hist.scores[j].name
       /\ normalizeName(hist.scores[i].name) = normalizeName(hist.scores[j].name)
       /\ hist.plan.created[i]

SameAsFirstCall ==
  /\ hist.plan.rows = hist.prevPlan.rows
  /\ \A k \in 1..Len(hist.scores) : ~hist.plan.created[k]
  /\ hist.plan.dateCol = hist.prevPlan.dateCol
  /\ Len(HeaderOf(store)) = Len(HeaderOf(hist.pre))
  /\ Len(store) = Len(hist.pre)
  /\ store = hist.pre

\* C2 as stated: the same upsert applied a second time resolves every entry
\* to the row of the first call, adds no row and no date column, and leaves
\* the sheet as the first call left it.
C2_Idempotent == hist.op = "again" => SameAsFirstCall

\* C2 amended: the same holds when no entry of the first call was resolved
\* by a substring match.
C2_IdempotentWhenExact ==
  (/\ hist.op = "again"
   /\ \A k \in 1..Len(hist.scores) : ~FuzzyAt(hist.prevPlan, hist.scores, k))
  => SameAsFirstCall

C2_Witness ==
  /\ hist.op = "again"
  /\ \A k \in 1..Len(hist.scores) : ~FuzzyAt(hist.prevPlan, hist.scores, k)
  /\ \E k \in 1..Len(hist.scores) : hist.prevPlan.created[k]
  /\ \E k \in 1..Len(hist.scores) :
       /\ ~hist.prevPlan.created[k]
       /\ Cell(hist.prevPlan.values[hist.prevPlan.rows[k] + 1], 0) # hist.scores[k].name
  /\ findIndex(HeaderOf(hist.first), hist.dateLabel) = -1

\* C8: an upsert reuses the column whose header cell equals dateLabel and
\* adds none, or else adds exactly one column, at max(1, header length),
\* holding dateLabel; every header cell of a column >= 1 that was there
\* before the call is unchanged after it.
C8_DateLabelsStable ==
  Upserted =>
    LET before == HeaderOf(hist.pre)
        after == HeaderOf(store)
    IN  /\ IF \E i \in 1..Len(before) : before[i] = hist.dateLabel
             THEN Len(after) = Len(before)
             ELSE /\ Len(after) = Max(1, Len(before)) + 1
                  /\ Cell(after, Max(1, Len(before))) = hist.dateLabel
        /\ \A c \in 1..(Len(before) - 1) : Cell(after, c) = Cell(before, c)

C8_Witness ==
  /\ hist.op = "upsert"
  /\ calls >= 2
  /\ Len(HeaderOf(hist.pre)) >= 2
  /\ findIndex(HeaderOf(hist.pre), hist.dateLabel) = -1
  /\ Len(HeaderOf(store)) = Len(HeaderOf(hist.pre)) + 1

CreatedBefore(plan, k) == Cardinality({j \in 1..(k - 1) : plan.created[j]})

\* C9: entry by entry, in batch order: an entry that resolves adds no row;
\* one that does not appends exactly one row after all current rows, with
\* its original name in column 0, and later entries of the batch resolve to
\* it; either way one write puts the entry's value at (row, date column),
\* and there are as many score writes as entries.
C9_EntryByEntry ==
  Upserted =>
    LET plan == hist.plan
        scores == hist.scores
        base == Max(1, Len(hist.pre))
    IN  /\ Len(plan.rows) = Len(scores)
        /\ Len(plan.updates) = Len(scores) + 3
        /\ Len(plan.values) = base + CreatedBefore(plan, Len(scores) + 1)
        /\ \A k \in 1..Len(scores) :
             /\ plan.updates[k].row = plan.rows[k] + 1
             /\ ColumnIndex(plan.updates[k].col) = plan.dateCol
             /\ plan.updates[k].values = <<scores[k].culvert>>
             /\ IF plan.created[k]
                  THEN /\ plan.rows[k] = base + CreatedBefore(plan, k)
                       /\ plan.values[plan.rows[k] + 1] = <<scores[k].name>>
                       /\ Cell(store[plan.rows[k] + 1], 0) = scores[k].name
                       /\ \A r \in 1..(plan.rows[k] - 1) :
                            NameAt(plan.values, r) # normalizeName(scores[k].name)
                       /\ \A j \in (k + 1)..Len(scores) :
                            normalizeName(scores[j].name) = normalizeName(scores[k].name)
                              => plan.rows[j] = plan.rows[k] /\ ~plan.created[j]
                  ELSE /\ plan.rows[k] \in 1..(base + CreatedBefore(plan, k) - 1)
                       /\ NameAt(plan.values, plan.rows[k]) # <<>>

\* on a sheet that has data rows, a batch appended a row under a spelling
\* that is not normalized, and a later entry of the same batch went to it
C9_Witness ==
  /\ hist.op = "upsert"
  /\ \E k \in 1..Len(hist.scores), j \in 1..Len(hist.scores) :
       /\ k < j
       /\ hist.plan.created[k]
       /\ hist.scores[k].name # normalizeName(hist.scores[k].name)
       /\ hist.plan.rows[j] = hist.plan.rows[k]
  /\ Len(hist.pre) >= 2

(***************************************************************************)
(* findRowByName on its own (specification SpecFind): an index as the      *)
(* upsert builds it (normalized, non-empty, distinct keys; distinct rows)  *)
(* and an input name.                                                      *)
(***************************************************************************)
MaxIndex == 3      \* keys in a name index

IndexKeys ==
  { Jon, <<"j","o","n"," ","s","m","i","t","h">>, Jonathan, AmyLower,
    <<"j","o">>, <<"o","n">> }

ProbeInputs ==
  { Jon, <<" ","J","O","N"," ">>, JonSmith, Jonathan, Amy,
    <<"j","o","n","a">>, <<"n">>, <<" ">> }

Injective(f) == \A i \in DOMAIN f, j \in DOMAIN f : f[i] = f[j] => i = j

Indexes ==
  UNION { { [i \in 1..n |-> [key |-> keys[i], row |-> rows[i]]] :
              keys \in {f \in [1..n -> IndexKeys] : Injective(f)},
              rows \in {f \in [1..n -> 1..n] : Injective(f)} } :
          n \in 0..MaxIndex }

InitFind ==
  /\ store = <<>>
  /\ calls = 0
  /\ used = 0
  /\ hist = NoCall
  /\ probe \in {[op |-> "ask", index |-> ix, input |-> n, row |-> NoRow] :
                  ix \in Indexes, n \in ProbeInputs}
  /\ race = NoRace
  /\ h = NoHandler
  /\ chart = NoChart
  /\ calc = NoCalc

Find ==
  /\ probe.op = "ask"
  /\ probe' = [probe EXCEPT !.op = "found",
                            !.row = findRowByName(probe.index, probe.input)]
  /\ UNCHANGED <<store, calls, used, hist, race, h, chart, calc>>

NextFind == Find

SpecFind == InitFind /\ [][NextFind]_vars

\* t occurs in s: s is some text, then t, then some text
Occurs(t, s) ==
  \E a \in 0..Len(s), b \in 0..Len(s) :
    /\ a <= b
    /\ b - a = Len(t)
    /\ \A i \in 1..Len(t) : s[a + i] = t[i]

Candidates(index, n) ==
  {i \in 1..Len(index) : Occurs(n, index[i].key) \/ Occurs(index[i].key, n)}

Distance(index, i, n) == Abs(Len(index[i].key) - Len(n))

\* C7: findRowByName returns the row of the key equal to the normalized
\* input if there is one; otherwise no row when no key contains the input
\* or is contained in it; otherwise the row of the candidate key whose
\* length is closest to the input's, the first in insertion order among the
\* closest.  With keys "jon smith" and "jonathan", "jon" goes to "jonathan".
C7_TwoPhasePolicy ==
  probe.op = "found" =>
    LET index == probe.index
        n == normalizeName(probe.input)
        cand == Candidates(index, n)
    IN  /\ IF \E i \in 1..Len(index) : index[i].key = n
             THEN \E i \in 1..Len(index) : index[i].key = n /\ probe.row = index[i].row
             ELSE IF cand = {}
               THEN probe.row = NoRow
               ELSE \E i \in cand :
                      /\ probe.row = index[i].row
                      /\ \A j \in cand :
                           \/ Distance(index, i, n) < Distance(index, j, n)
                           \/ Distance(index, i, n) = Distance(index, j, n) /\ i <= j
        /\ (/\ Len(index) = 2
            /\ index[1].key = <<"j","o","n"," ","s","m","i","t","h">>
            /\ index[2].key = Jonathan
            /\ probe.input = Jon)
           => probe.row = index[2].row

\* a lookup that had no exact key and two closest candidates of one length,
\* and took the one inserted first, whose row number is the larger
C7_Witness ==
  /\ probe.op = "found"
  /\ LET index == probe.index
         n == normalizeName(probe.input)
     IN  /\ \A i \in 1..Len(index) : index[i].key # n
         /\ \E i \in Candidates(index, n), j \in Candidates(index, n) :
              /\ i < j
              /\ Distance(index, i, n) = Distance(index, j, n)
              /\ \A k \in Candidates(index, n) :
                   Distance(index, i, n) <= Distance(index, k, n)
              /\ probe.row = index[i].row
              /\ index[i].row > index[j].row

(***************************************************************************)
(* Two messageCreate handlers in flight (specification SpecRace): each     *)
(* upsert awaits its read, computes its plan without a break, and awaits   *)
(* its batch write, which the store applies as a whole.                    *)
(***************************************************************************)
Racers == {1, 2}

RaceNames == {Jon, Jonathan, Amy}

RaceBatches == UNION {[1..n -> RaceNames] : n \in 1..MaxBatch}

InitRace ==
  /\ store \in InitLedgers
  /\ calls = 0
  /\ used = 0
  /\ hist = NoCall
  /\ probe = NoProbe
  /\ h = NoHandler
  /\ chart = NoChart
  /\ calc = NoCalc
  /\ \E d1 \in DateLabels, d2 \in DateLabels, n1 \in RaceBatches, n2 \in RaceBatches :
       race = [call |-> << [pc |-> "start", dateLabel |-> d1,
                            scores |-> ScoresOf(n1, 1), plan |-> NoPlan],
                           [pc |-> "start", dateLabel |-> d2,
                            scores |-> ScoresOf(n2, 2), plan |-> NoPlan] >>,
               log |-> <<>>]

\* await sheets.spreadsheets.values.get returns; the code up to the
\* batchUpdate call runs
RaceRead(p) ==
  /\ race.call[p].pc = "start"
  /\ race' = [call |-> [race.call EXCEPT
                          ![p].pc = "planned",
                          ![p].plan = upsertPlan(store, race.call[p].dateLabel,
                                                 race.call[p].scores)],
              log |-> Append(race.log, <<p, "read">>)]
  /\ UNCHANGED <<store, calls, used, hist, probe, h, chart, calc>>

\* the store applies the batch write
RaceWrite(p) ==
  /\ race.call[p].pc = "planned"
  /\ store' = batchUpdate(store, race.call[p].plan.updates)
  /\ race' = [call |-> [race.call EXCEPT ![p].pc = "done"],
              log |-> Append(race.log, <<p, "write">>)]
  /\ UNCHANGED <<calls, used, hist, probe, h, chart, calc>>

NextRace ==
  \/ \E p \in Racers : RaceRead(p)
  \/ \E p \in Racers : RaceWrite(p)

SpecRace == InitRace /\ [][NextRace]_vars

BothWritten ==
  /\ race.call # <<>>
  /\ \A p \in Racers : race.call[p].pc = "done"

\* both calls read before either batch write was applied
Raced == Len(race.log) >= 2 /\ race.log[1][2] = "read" /\ race.log[2][2] = "read"

LastWriter == race.log[Len(race.log)][1]

\* the score cell of entry k of call p lies in a row whose column-A name is
\* the name the entry resolved to, under a header cell holding p's label
ScoreCellConsistent(p, k) ==
  LET plan == race.call[p].plan
      r == plan.rows[k]
  IN  /\ r + 1 <= Len(store)
      /\ Cell(store[r + 1], 0) = Cell(plan.values[r + 1], 0)
      /\ Cell(store[1], plan.dateCol) = race.call[p].dateLabel

\* C3 as stated: after two upserts that both read before either wrote,
\* every score cell written lies in the row named as its entry resolved and
\* under the date label of the upsert that wrote it.
C3_RaceConsistent ==
  (BothWritten /\ Raced) =>
    \A p \in Racers : \A k \in 1..Len(race.call[p].scores) : ScoreCellConsistent(p, k)

\* C3 amended: this holds for the score cells of the upsert whose batch
\* write was applied last.
C3_LastWriterConsistent ==
  (BothWritten /\ Raced) =>
    \A k \in 1..Len(race.call[LastWriter].scores) : ScoreCellConsistent(LastWriter, k)

\* both calls appended a row at the same index, for different names and
\* under different date labels
C3_Witness ==
  /\ BothWritten
  /\ Raced
  /\ race.call[1].dateLabel # race.call[2].dateLabel
  /\ \E k1 \in 1..Len(race.call[1].scores), k2 \in 1..Len(race.call[2].scores) :
       /\ race.call[1].plan.created[k1]
       /\ race.call[2].plan.created[k2]
       /\ race.call[1].plan.rows[k1] = race.call[2].plan.rows[k2]
       /\ normalizeName(race.call[1].scores[k1].name)
            # normalizeName(race.call[2].scores[k2].name)

(***************************************************************************)
(* One run of the messageCreate handler on an upload or manualupload       *)
(* command (specification SpecUpload).  The handler runs from one await to *)
(* the next without a break; the worker, the sheet read and the sheet      *)
(* write each answer or throw.                                             *)
(***************************************************************************)
MaxImages == 2     \* image attachments on one upload command

TokenMarch1   == <<"3","/","1","/","2","4">>
TokenMarch8   == <<"0","3","/","0","8","/","2","4">>
TokenFeb30    == <<"0","2","/","3","0","/","2","6">>
TokenMonth13  == <<"1","3","/","0","1","/","2","6">>
TokenLongYear == <<"3","/","1","/","2","0","2","4">>

DateTokens == {TokenMarch1, TokenMarch8, TokenFeb30, TokenMonth13, TokenLongYear}

AmyPadded == <<" ","A","m","y"," ">>

\* decoded rows with a name and a culvert each; i tells the images apart
RowsOf(names, i) ==
  [k \in 1..Len(names) |->
     [hasName |-> TRUE, name |-> names[k], hasCulvert |-> TRUE, culvert |-> Culvert(i, k)]]

BodyNames == { <<Jon>>, <<Jonathan, Jon>>, <<AmyPadded, AmyLower>> }

\* decoded rows that give no usable entry
UnusableBodies ==
  { <<>>,
    << [hasName |-> TRUE, name |-> Jon, hasCulvert |-> FALSE, culvert |-> <<>>],
       [hasName |-> TRUE, name |-> <<" ">>, hasCulvert |-> TRUE, culvert |-> <<"9">>] >> }

Bodies(i) == {RowsOf(names, i) : names \in BodyNames} \cup UnusableBodies

UploadLedgers == {SheetEmpty, SheetJonSmith, SheetNamesOnly}

UploadMessages ==
  [kind : {"upload"}, allowed : BOOLEAN,
   tokens : {<<>>} \cup {<<t>> : t \in DateTokens} \cup {<<TokenFeb30, TokenMarch1>>},
   images : 0..MaxImages]

ManualMessages ==
  [kind : {"manualupload"}, allowed : BOOLEAN, args : {"none", "dateOnly", "full"},
   dateToken : DateTokens, rows : Bodies(1)]

Reply(hh, text) == [hh EXCEPT !.replies = Append(@, text)]

Finish(hh, text) == [Reply(hh, text) EXCEPT !.pc = "done"]

AllPending(k) ==
  [i \in 1..k |-> [phase |-> "pending", attempts |-> 0, entries |-> <<>>, plan |-> NoPlan]]

\* the upload branch up to its first await inside the loop
uploadStart(hh) ==
  LET m == hh.msg
      parsedDate == parseN8nDate(m.tokens[1])
  IN  IF ~m.allowed THEN Finish(hh, "no permission")
      ELSE IF Len(m.tokens) = 0 THEN Finish(hh, "date is missing")
      ELSE IF Len(m.tokens) > 1 THEN Finish(hh, "usage")
      ELSE IF ~parsedDate.ok THEN Finish(hh, "date must be valid")
      ELSE IF m.images = 0 THEN Finish(hh, "attach images")
      ELSE [Reply(hh, "processing") EXCEPT
              !.pc = "loop", !.idx = 1, !.isoDate = parsedDate.isoDate,
              !.img = AllPending(m.images)]

\* the manualupload branch up to the read of upsertCulvertScoresByName
manualStart(hh) ==
  LET m == hh.msg
      parsedDate == parseN8nDate(m.dateToken)
      manualRows == toExtractedEntries(m.rows)
  IN  IF ~m.allowed THEN Finish(hh, "no permission")
      ELSE IF m.args = "none" THEN Finish(hh, "usage")
      ELSE IF m.args = "dateOnly" THEN Finish(hh, "json is missing")
      ELSE IF ~parsedDate.ok THEN Finish(hh, "date must be valid")
      ELSE IF Len(manualRows) = 0 THEN Finish(hh, "invalid json")
      ELSE [hh EXCEPT !.pc = "mread", !.isoDate = parsedDate.isoDate,
                      !.dateLabel = isoToSheetDateLabel(parsedDate.isoDate),
                      !.entries = manualRows, !.reads = @ + 1]

\* the loop goes on with the next attachment
Resume(hh) == [hh EXCEPT !.pc = "loop", !.idx = @ + 1]

\* a request that is not awaited: the loop goes on at once
AfterSendNoAwait(hh) == [hh EXCEPT !.idx = @ + 1]

\* await sendImagesToN8n(...)
AfterSend(hh) == [hh EXCEPT !.pc = "await"]

\* a failure that ends the loop
OnFailureAbort(hh, i, why) ==
  [hh EXCEPT !.failures = Append(@, [image |-> i, why |-> why]),
             !.img[i].phase = "failed",
             !.pc = "loop", !.idx = Len(hh.img) + 1]

\* failures.push(...) and on to the next attachment
OnFailure(hh, i, why) ==
  Resume([hh EXCEPT !.failures = Append(@, [image |-> i, why |-> why]),
                    !.img[i].phase = "failed"])

InitUpload ==
  /\ store \in UploadLedgers
  /\ calls = 0
  /\ used = 0
  /\ hist = NoCall
  /\ probe = NoProbe
  /\ race = NoRace
  /\ \E m \in UploadMessages \cup ManualMessages :
       h = [NoHandler EXCEPT !.pc = "received", !.msg = m, !.before = store]
  /\ chart = NoChart
  /\ calc = NoCalc

others == <<calls, used, hist, probe, race, chart, calc>>

HandleUpload ==
  /\ h.pc = "received"
  /\ h.msg.kind = "upload"
  /\ h' = uploadStart(h)
  /\ UNCHANGED <<store, others>>

HandleManual ==
  /\ h.pc = "received"
  /\ h.msg.kind = "manualupload"
  /\ h' = manualStart(h)
  /\ UNCHANGED <<store, others>>

\* the loop reaches attachment idx and calls the worker
SendImage ==
  /\ h.pc = "loop"
  /\ h.idx <= Len(h.img)
  /\ h' = AfterSend([h EXCEPT !.img[h.idx].phase = "requested",
                              !.img[h.idx].attempts = @ + 1,
                              !.workerCalls = @ + 1])
  /\ UNCHANGED <<store, others>>

\* sendImagesToN8n throws (download or webhook failure)
WorkerThrows(i) ==
  /\ h.img[i].phase = "requested"
  /\ h' = OnFailure(h, i, "worker threw")
  /\ UNCHANGED <<store, others>>

\* the worker answers outside 200..299
WorkerRefuses(i) ==
  /\ h.img[i].phase = "requested"
  /\ h' = OnFailure(h, i, "n8n status")
  /\ UNCHANGED <<store, others>>

\* the worker answers 2xx; the rows are extracted and the upsert starts
WorkerAnswers(i, rows) ==
  /\ h.img[i].phase = "requested"
  /\ LET extracted == toExtractedEntries(rows)
     IN  h' = IF Len(extracted) = 0
                THEN OnFailure(h, i, "no parsable rows")
                ELSE [h EXCEPT !.img[i].phase = "reading",
                               !.img[i].entries = extracted,
                               !.dateLabel = isoToSheetDateLabel(h.isoDate),
                               !.reads = @ + 1]
  /\ UNCHANGED <<store, others>>

ReadReturns(i) ==
  /\ h.img[i].phase = "reading"
  /\ h' = [h EXCEPT !.img[i].phase = "writing",
                    !.img[i].plan = upsertPlan(store, h.dateLabel, h.img[i].entries),
                    !.writes = @ + 1]
  /\ UNCHANGED <<store, others>>

ReadThrows(i) ==
  /\ h.img[i].phase = "reading"
  /\ h' = OnFailure(h, i, "read threw")
  /\ UNCHANGED <<store, others>>

WriteReturns(i) ==
  /\ h.img[i].phase = "writing"
  /\ store' = batchUpdate(store, h.img[i].plan.updates)
  /\ h' = Resume([h EXCEPT !.img[i].phase = "done",
                           !.writtenRows = @ + Len(h.img[i].entries)])
  /\ UNCHANGED others

WriteThrows(i) ==
  /\ h.img[i].phase = "writing"
  /\ h' = OnFailure(h, i, "write threw")
  /\ UNCHANGED <<store, others>>

\* the loop is over: the summary reply
Summary ==
  /\ h.pc = "loop"
  /\ h.idx > Len(h.img)
  /\ h' = Finish(h, IF Len(h.failures) = 0 THEN "done" ELSE "done with partial results")
  /\ UNCHANGED <<store, others>>

ManualReadReturns ==
  /\ h.pc = "mread"
  /\ h' = [h EXCEPT !.pc = "mwrite",
                    !.plan = upsertPlan(store, h.dateLabel, h.entries),
                    !.writes = @ + 1]
  /\ UNCHANGED <<store, others>>

ManualWriteReturns ==
  /\ h.pc = "mwrite"
  /\ store' = batchUpdate(store, h.plan.updates)
  /\ h' = Finish(h, "manual upload complete")
  /\ UNCHANGED others

\* the read or the write throws: the handler's catch replies
ManualThrows ==
  /\ h.pc \in {"mread", "mwrite"}
  /\ h' = Finish(h, "something went wrong")
  /\ UNCHANGED <<store, others>>

Images == 1..MaxImages

NextUpload ==
  \/ HandleUpload
  \/ HandleManual
  \/ SendImage
  \/ \E i \in Images : i <= Len(h.img) /\ WorkerThrows(i)
  \/ \E i \in Images : i <= Len(h.img) /\ WorkerRefuses(i)
  \/ \E i \in Images : i <= Len(h.img) /\ \E rows \in Bodies(i) : WorkerAnswers(i, rows)
  \/ \E i \in Images : i <= Len(h.img) /\ ReadReturns(i)
  \/ \E i \in Images : i <= Len(h.img) /\ ReadThrows(i)
  \/ \E i \in Images : i <= Len(h.img) /\ WriteReturns(i)
  \/ \E i \in Images : i <= Len(h.img) /\ WriteThrows(i)
  \/ Summary
  \/ ManualReadReturns
  \/ ManualWriteReturns
  \/ ManualThrows

SpecUpload == InitUpload /\ [][NextUpload]_vars

(***************************************************************************)
(* Properties of one command (specification SpecUpload).                  *)
(***************************************************************************)
InLoop == h.msg.kind = "upload" /\ h.replies # <<>> /\ h.replies[1] = "processing"

Settled(i) == h.img[i].phase \in {"done", "failed"}

InFlight(i) == h.img[i].phase \in {"requested", "reading", "writing"}

SummarySent ==
  \E n \in 1..Len(h.replies) : h.replies[n] \in {"done", "done with partial results"}

\* C4: the worker request for image i + 1 is not issued before image i's
\* worker call and upsert have completed or failed, and no two images of
\* the command are in progress at once.
C4_OneImageAtATime ==
  InLoop =>
    /\ \A i \in 1..(Len(h.img) - 1) : h.img[i + 1].phase # "pending" => Settled(i)
    /\ \A i \in 1..Len(h.img), j \in 1..Len(h.img) : (InFlight(i) /\ InFlight(j)) => i = j

\* the second image's sheet write is pending after the first image's upsert
\* has completed
C4_Witness ==
  /\ InLoop
  /\ Len(h.img) >= 2
  /\ h.img[1].phase = "done"
  /\ h.img[2].phase = "writing"

DoneImages == {i \in 1..Len(h.img) : h.img[i].phase = "done"}

ScoreCell(i, k) ==
  Cell(store[h.img[i].plan.rows[k] + 1], h.img[i].plan.dateCol)

Later(i, k, j, l) == j > i \/ (j = i /\ l > k)

\* C5 as stated: when images i < j both give an entry for one name, then
\* after the command the sheet holds image j's value for that name, and
\* image i's value is nowhere in the date column.  (j's entry is the last
\* entry for that name of the last image that has one.)
C5_LastImageWinsByName ==
  (InLoop /\ h.pc = "done") =>
    \A i \in DoneImages, j \in DoneImages :
      \A k \in 1..Len(h.img[i].entries), l \in 1..Len(h.img[j].entries) :
        (/\ i < j
         /\ normalizeName(h.img[i].entries[k].name) = normalizeName(h.img[j].entries[l].name)
         /\ \A j2 \in DoneImages : \A l2 \in 1..Len(h.img[j2].entries) :
              (Later(j, l, j2, l2))
                => normalizeName(h.img[j2].entries[l2].name)
                     # normalizeName(h.img[j].entries[l].name))
        => /\ ScoreCell(j, l) = h.img[j].entries[l].culvert
           /\ \A r \in DataRows(store) :
                Cell(store[r + 1], h.img[j].plan.dateCol) # h.img[i].entries[k].culvert

\* C5 amended: last write wins per resolved row: after the command, with no
\* other command writing the sheet meanwhile, the date cell of every row an
\* entry resolved to holds the value of the last entry, in image order and
\* then batch order, of the successfully processed images that resolved to
\* that row.
C5_LastWriteWinsByRow ==
  (InLoop /\ h.pc = "done") =>
    \A i \in DoneImages : \A k \in 1..Len(h.img[i].entries) :
      (\A j \in DoneImages : \A l \in 1..Len(h.img[j].entries) :
         Later(i, k, j, l) => h.img[j].plan.rows[l] # h.img[i].plan.rows[k])
      => /\ ScoreCell(i, k) = h.img[i].entries[k].culvert
         /\ h.img[i].plan.dateCol = findIndex(store[1], h.dateLabel)

\* two images gave an entry for one normalized name, both went to one row,
\* and a further entry of the second image went to another row
C5_Witness ==
  /\ InLoop
  /\ h.pc = "done"
  /\ DoneImages = {1, 2}
  /\ \E k \in 1..Len(h.img[1].entries), l \in 1..Len(h.img[2].entries) :
       /\ normalizeName(h.img[1].entries[k].name) = normalizeName(h.img[2].entries[l].name)
       /\ h.img[1].plan.rows[k] = h.img[2].plan.rows[l]
       /\ ScoreCell(1, k) = h.img[2].entries[l].culvert

FailuresOf(i) == {n \in 1..Len(h.failures) : h.failures[n].image = i}

\* C6: every image is attempted once whatever happened to the earlier ones;
\* each image that fails (worker throws, non-2xx, no usable entries, upsert
\* throws) adds exactly one failure record and the others none; the summary
\* reply is sent only when all images are settled; and then failures plus
\* completed upserts make k.
C6_PartialFailures ==
  InLoop =>
    /\ \A i \in 1..Len(h.img) :
         /\ h.img[i].attempts = (IF h.img[i].phase = "pending" THEN 0 ELSE 1)
         /\ Cardinality(FailuresOf(i)) = (IF h.img[i].phase = "failed" THEN 1 ELSE 0)
    /\ SummarySent => \A i \in 1..Len(h.img) : Settled(i)
    /\ h.pc = "done" =>
         /\ SummarySent
         /\ h.workerCalls = Len(h.img)
         /\ Len(h.failures) + Cardinality(DoneImages) = Len(h.img)

\* the first image failed and the second image's upsert completed
C6_Witness ==
  /\ InLoop
  /\ h.pc = "done"
  /\ Len(h.img) >= 2
  /\ h.img[1].phase = "failed"
  /\ h.img[2].phase = "done"
  /\ Len(h.failures) = 1

\* a text of the form M/D/YY naming a day of the calendar
RealCommandDate(token) ==
  LET parts == SplitOn(token, "/", <<>>, <<>>)
  IN  /\ Len(parts) = 3
      /\ Len(parts[1]) \in {1, 2} /\ Len(parts[2]) \in {1, 2} /\ Len(parts[3]) = 2
      /\ \A n \in 1..3 : AllDigits(parts[n])
      /\ NumberOf(parts[1], 0) \in 1..12
      /\ NumberOf(parts[2], 0) \in
           1..DaysInMonth(2000 + NumberOf(parts[3], 0), NumberOf(parts[1], 0))

HasUsableEntry(rows) ==
  \E n \in 1..Len(rows) :
    /\ rows[n].hasName /\ rows[n].hasCulvert
    /\ \E c \in 1..Len(rows[n].name) : ~IsSpace(rows[n].name[c])
    /\ \E c \in 1..Len(rows[n].culvert) : ~IsSpace(rows[n].culvert[c])

BadDate ==
  \/ h.msg.kind = "upload" /\ h.msg.tokens # <<>> /\ ~RealCommandDate(h.msg.tokens[1])
  \/ h.msg.kind = "manualupload" /\ h.msg.args # "none" /\ ~RealCommandDate(h.msg.dateToken)

BadJson ==
  h.msg.kind = "manualupload" /\ h.msg.args = "full" /\ ~HasUsableEntry(h.msg.rows)

ErrorReplies ==
  {"no permission", "date is missing", "usage", "date must be valid",
   "json is missing", "invalid json"}

\* C10: a command whose date token is not a valid MM/DD/YY date, or a
\* manualupload whose JSON gives no usable entry, makes no worker call, no
\* sheet read and no sheet write, leaves the sheet as it was, and ends with
\* exactly one reply, an error reply: the date error when the date is what
\* is wrong, the JSON error when only the JSON is.
C10_ValidationIsTerminal ==
  (BadDate \/ BadJson) =>
    /\ h.workerCalls = 0 /\ h.reads = 0 /\ h.writes = 0
    /\ store = h.before
    /\ h.pc \in {"received", "done"}
    /\ h.pc = "done" =>
         /\ Len(h.replies) = 1
         /\ h.replies[1] \in ErrorReplies
         /\ (h.msg.allowed /\ h.msg.kind = "upload" /\ Len(h.msg.tokens) = 1)
              => h.replies[1] = "date must be valid"
         /\ (h.msg.allowed /\ h.msg.kind = "manualupload" /\ h.msg.args = "full")
              => h.replies[1] = (IF BadDate THEN "date must be valid" ELSE "invalid json")

\* an upload with images whose date has the MM/DD/YY form but names no day
\* of the calendar has ended
C10_Witness ==
  /\ h.pc = "done"
  /\ h.msg.kind = "upload"
  /\ h.msg.allowed
  /\ h.msg.images >= 1
  /\ h.msg.tokens = <<TokenFeb30>>
  /\ h.replies = <<"date must be valid">>

(***************************************************************************)
(* Reading the sheet for the chart commands: score cells, header dates,    *)
(* one player's points.                                                    *)
(***************************************************************************)
MaxCols == 2
MaxRows == 2

\* raw.replace(/,/g, "")
RECURSIVE removeCommas(_)
removeCommas(s) ==
  IF s = <<>> THEN <<>>
  ELSE IF Head(s) = "," THEN removeCommas(Tail(s))
  ELSE <<Head(s)>> \o removeCommas(Tail(s))

InfinityText == <<"I","n","f","i","n","i","t","y">>

NaN == [kind |-> "NaN", value |-> 0]

\* Number(text) for a text without fraction, exponent or radix prefix: the
\* empty text is 0, a signed run of digits is its value, a signed Infinity
\* is infinite, anything else is NaN
Number(text) ==
  LET t == trim(text)
      signed == t # <<>> /\ Head(t) \in {"-", "+"}
      body == IF signed THEN Tail(t) ELSE t
      sign == IF t # <<>> /\ Head(t) = "-" THEN -1 ELSE 1
  IN  IF t = <<>> THEN [kind |-> "finite", value |-> 0]
      ELSE IF body # <<>> /\ AllDigits(body)
        THEN [kind |-> "finite", value |-> sign * NumberOf(body, 0)]
      ELSE IF body = InfinityText THEN [kind |-> "infinite", value |-> sign]
      ELSE NaN

NoScore == [ok |-> FALSE, value |-> 0]

\* a score parser for which a blank cell is the number 0
parseScoreBlankIsZero(raw) ==
  LET value == Number(trim(removeCommas(raw)))
  IN  IF value.kind = "finite" THEN [ok |-> TRUE, value |-> value.value] ELSE NoScore

parseScore(raw) ==
  LET cleaned == trim(removeCommas(raw))
  IN  IF cleaned = <<>> THEN NoScore
      ELSE LET value == Number(cleaned)
           IN  IF value.kind = "finite" THEN [ok |-> TRUE, value |-> value.value]
               ELSE NoScore

normalizeUsername(raw) == toLocaleLowerCase(collapseWhitespace(trim(raw)))

NoSheetDate == [ok |-> FALSE, date |-> [year |-> 0, month |-> 0, date |-> 0]]

\* raw.trim().match(/^(\d{1,2})\/(\d{1,2})\/(\d{2}|\d{4})$/)
matchSheetDate(raw) ==
  LET m == SplitOn(trim(raw), "/", <<>>, <<>>)
  IN  /\ Len(m) = 3
      /\ \A i \in 1..3 : AllDigits(m[i])
      /\ Len(m[1]) \in 1..2
      /\ Len(m[2]) \in 1..2
      /\ Len(m[3]) \in {2, 4}

\* a header parser that takes the year text as the year
parseSheetDateYearAsWritten(raw) ==
  IF ~matchSheetDate(raw) THEN NoSheetDate
  ELSE LET m == SplitOn(trim(raw), "/", <<>>, <<>>)
           month == NumberOf(m[1], 0)
           day == NumberOf(m[2], 0)
           year == IF Len(m[3]) = 2 THEN 1000 + NumberOf(m[3], 0) ELSE NumberOf(m[3], 0)
       IN  IF ~isValidDateParts(year, month, day) THEN NoSheetDate
           ELSE [ok |-> TRUE, date |-> DateUTC(year, month - 1, day)]

parseSheetDate(raw) ==
  IF ~matchSheetDate(raw) THEN NoSheetDate
  ELSE LET m == SplitOn(trim(raw), "/", <<>>, <<>>)
           month == NumberOf(m[1], 0)
           day == NumberOf(m[2], 0)
           year == IF Len(m[3]) = 2 THEN 2000 + NumberOf(m[3], 0) ELSE NumberOf(m[3], 0)
       IN  IF ~isValidDateParts(year, month, day) THEN NoSheetDate
           ELSE [ok |-> TRUE, date |-> DateUTC(year, month - 1, day)]

LeapDaysThrough(y) == (y \div 4) - (y \div 100) + (y \div 400)

RECURSIVE DaysBeforeMonth(_, _)
DaysBeforeMonth(y, m) ==
  IF m <= 1 THEN 0 ELSE DaysInMonth(y, m - 1) + DaysBeforeMonth(y, m - 1)

\* Date.prototype.getTime of a UTC midnight, counted in days since
\* 1970-01-01 (every Date made here is a UTC midnight, so the count in
\* milliseconds is this one times 86400000)
getTime(d) ==
  365 * (d.year - 1970)
  + LeapDaysThrough(d.year - 1) - LeapDaysThrough(1969)
  + DaysBeforeMonth(d.year, d.month + 1)
  + (d.date - 1)

\* a lookup by substring: the first data row whose name contains the input
RECURSIVE findTargetRowFuzzy(_, _, _)
findTargetRowFuzzy(rows, normalizedInput, r) ==
  IF r > Len(rows) THEN 0
  ELSE IF includes(normalizeUsername(Cell(rows[r], 0)), normalizedInput) THEN r
  ELSE findTargetRowFuzzy(rows, normalizedInput, r + 1)

\* rows.slice(1).find(...): the first data row of that normalized name, 0 if none
RECURSIVE findTargetRow(_, _, _)
findTargetRow(rows, normalizedInput, r) ==
  IF r > Len(rows) THEN 0
  ELSE IF normalizeUsername(Cell(rows[r], 0)) = normalizedInput THEN r
  ELSE findTargetRow(rows, normalizedInput, r + 1)

\* the loop over the header columns from col on
RECURSIVE collectPoints(_, _, _, _)
collectPoints(header, targetRow, col, points) ==
  IF ~(col < Len(header)) THEN points
  ELSE LET label == trim(Cell(header, col))
           rawScore == trim(Cell(targetRow, col))
           date == parseSheetDate(label)
           value == parseScore(rawScore)
       IN  collectPoints(header, targetRow, col + 1,
             IF ~date.ok \/ ~value.ok THEN points
             ELSE Append(points, [label |-> label, date |-> date.date, value |-> value.value]))

\* One step of a stable sort by a.date.getTime() - b.date.getTime()
RECURSIVE InsertByTime(_, _)
InsertByTime(sorted, p) ==
  IF sorted = <<>> THEN <<p>>
  ELSE IF getTime(Head(sorted).date) - getTime(p.date) <= 0
    THEN <<Head(sorted)>> \o InsertByTime(Tail(sorted), p)
    ELSE <<p>> \o sorted

RECURSIVE SortByTime(_, _)
SortByTime(points, acc) ==
  IF points = <<>> THEN acc
  ELSE SortByTime(Tail(points), InsertByTime(acc, Head(points)))

NoUser == [found |-> FALSE, displayName |-> <<>>, points |-> <<>>]

getUserPoints(rows, username) ==
  LET normalizedInput == normalizeUsername(username)
      header == IF rows = <<>> THEN <<>> ELSE rows[1]
      target == findTargetRow(rows, normalizedInput, 2)
  IN  IF target = 0 THEN NoUser
      ELSE [found |-> TRUE,
            displayName |-> Cell(rows[target], 0),
            points |-> SortByTime(collectPoints(header, rows[target], 1, <<>>), <<>>)]

(***************************************************************************)
(* Maps keyed by a time, insertion-ordered: sequences of [time, value].    *)
(***************************************************************************)
TimeMapHas(m, t) == \E i \in 1..Len(m) : m[i].time = t

TimeMapGet(m, t) == m[CHOOSE i \in 1..Len(m) : m[i].time = t].value

\* a map in which the first value set for a key stays
TimeMapSetKeepFirst(m, t, v) ==
  IF TimeMapHas(m, t) THEN m ELSE Append(m, [time |-> t, value |-> v])

TimeMapSet(m, t, v) ==
  IF TimeMapHas(m, t)
    THEN [i \in 1..Len(m) |-> IF m[i].time = t THEN [time |-> t, value |-> v] ELSE m[i]]
    ELSE Append(m, [time |-> t, value |-> v])

\* for (const p of points) dateMap.set(p.date.getTime(), p.label)
RECURSIVE setLabels(_, _)
setLabels(dateMap, points) ==
  IF points = <<>> THEN dateMap
  ELSE setLabels(TimeMapSet(dateMap, getTime(Head(points).date), Head(points).label),
                 Tail(points))

\* new Map(points.map((p) => [p.date.getTime(), p.value]))
RECURSIVE valueMap(_, _)
valueMap(points, m) ==
  IF points = <<>> THEN m
  ELSE valueMap(Tail(points), TimeMapSet(m, getTime(Head(points).date), Head(points).value))

RECURSIVE InsertTime(_, _)
InsertTime(sorted, t) ==
  IF sorted = <<>> THEN <<t>>
  ELSE IF Head(sorted) - t <= 0 THEN <<Head(sorted)>> \o InsertTime(Tail(sorted), t)
  ELSE <<t>> \o sorted

\* [...dateMap.keys()].sort((a, b) => a - b)
RECURSIVE sortedKeys(_, _)
sortedKeys(m, acc) ==
  IF m = <<>> THEN acc ELSE sortedKeys(Tail(m), InsertTime(acc, Head(m).time))

Null == [isNull |-> TRUE, value |-> 0]

\* a series in which a date without a point counts as 0
seriesOfZeroFill(times, m) ==
  [i \in 1..Len(times) |->
     [isNull |-> FALSE,
      value |-> IF TimeMapHas(m, times[i]) THEN TimeMapGet(m, times[i]) ELSE 0]]

\* times.map((t) => (m.has(t) ? m.get(t)! : null))
seriesOf(times, m) ==
  [i \in 1..Len(times) |->
     IF TimeMapHas(m, times[i])
       THEN [isNull |-> FALSE, value |-> TimeMapGet(m, times[i])]
       ELSE Null]

\* the alignment of two players' points in the compare command
alignSeries(pointsA, pointsB) ==
  LET dateMap == setLabels(setLabels(<<>>, pointsA), pointsB)
      times == sortedKeys(dateMap, <<>>)
  IN  [times |-> times,
       labels |-> [i \in 1..Len(times) |-> TimeMapGet(dateMap, times[i])],
       seriesA |-> seriesOf(times, valueMap(pointsA, <<>>)),
       seriesB |-> seriesOf(times, valueMap(pointsB, <<>>))]

(***************************************************************************)
(* The totals of the cumulative command.                                   *)
(***************************************************************************)
\* a column total that counts the cells that parse
RECURSIVE columnCount(_, _, _, _)
columnCount(rows, col, rowIndex, total) ==
  IF ~(rowIndex < Len(rows)) THEN total
  ELSE LET value == parseScore(trim(Cell(rows[rowIndex + 1], col)))
       IN  columnCount(rows, col, rowIndex + 1, IF value.ok THEN total + 1 ELSE total)

\* the inner loop: rowIndex is the 0-based row
RECURSIVE columnTotal(_, _, _, _)
columnTotal(rows, col, rowIndex, total) ==
  IF ~(rowIndex < Len(rows)) THEN total
  ELSE LET value == parseScore(trim(Cell(rows[rowIndex + 1], col)))
       IN  columnTotal(rows, col, rowIndex + 1,
                       IF value.ok THEN total + value.value ELSE total)

\* the outer loop over the header columns from col on
RECURSIVE collectTotals(_, _, _, _)
collectTotals(rows, header, col, points) ==
  IF ~(col < Len(header)) THEN points
  ELSE LET label == trim(Cell(header, col))
           date == parseSheetDate(label)
       IN  collectTotals(rows, header, col + 1,
             IF ~date.ok THEN points
             ELSE Append(points, [label |-> label, date |-> date.date,
                                  total |-> columnTotal(rows, col, 1, 0)]))

cumulativePoints(rows) ==
  SortByTime(collectTotals(rows, IF rows = <<>> THEN <<>> ELSE rows[1], 1, <<>>), <<>>)

(***************************************************************************)
(* One chart command (specification SpecChart): getuser, compare or        *)
(* cumulative, against a sheet of up to MaxCols score columns and MaxRows  *)
(* data rows.                                                              *)
(***************************************************************************)
HeaderMarch8     == <<"3","/","8","/","2","4">>
HeaderMarch1     == <<" ","3","/","1","/","2","4"," ">>
HeaderMarch1Long == <<"0","3","/","0","1","/","2","0","2","4">>
HeaderFeb30      == <<"2","/","3","0","/","2","4">>
HeaderTexts == {HeaderMarch8, HeaderMarch1, HeaderMarch1Long, HeaderFeb30}

JonSmithLower == <<"j","o","n"," ","s","m","i","t","h">>
JonSmithCaps  == <<"J","O","N"," "," ","S","M","I","T","H">>
Zed           == <<"z","e","d">>

ChartRows ==
  { <<JonSmith, <<"1","0">>, <<" ","1",",","2","0","0"," ">>, <<"7">> >>,
    <<JonSmithLower, <<>>, <<"5">> >>,
    <<Jonathan, <<"n","/","a">>, <<"0">>, InfinityText>>,
    <<Jon, <<"-","5">>, <<>>, <<"4">> >> }

ChartLedgers ==
  { <<<<NameHeader>> \o hd>> \o body :
      hd \in UNION {[1..n -> HeaderTexts] : n \in 0..MaxCols},
      body \in UNION {[1..n -> ChartRows] : n \in 0..MaxRows} }

ChartUsers == {JonSmithCaps, Jon, Zed}

\* users: what the text after the command gave: one name for getuser (empty:
\* none), two for compare (empty: parseCompareUsers returned null)
ChartMessages ==
  [kind : {"getuser"}, users : {<<>>} \cup {<<u>> : u \in ChartUsers}]
  \cup [kind : {"compare"}, users : {<<>>} \cup {<<u, v>> : u \in ChartUsers, v \in ChartUsers}]
  \cup [kind : {"cumulative"}, users : {<<>>}]

NoAlignment == [times |-> <<>>, labels |-> <<>>, seriesA |-> <<>>, seriesB |-> <<>>]

InitChart ==
  /\ store \in ChartLedgers
  /\ calls = 0
  /\ used = 0
  /\ hist = NoCall
  /\ probe = NoProbe
  /\ race = NoRace
  /\ h = NoHandler
  /\ calc = NoCalc
  /\ \E m \in ChartMessages :
       chart = [pc |-> "received", msg |-> m, rows |-> <<>>, reply |-> "none",
                userA |-> NoUser, userB |-> NoUser, aligned |-> NoAlignment,
                points |-> <<>>]

ChartReply(c, text) == [c EXCEPT !.pc = "done", !.reply = text]

unchart == <<store, calls, used, hist, probe, race, h, calc>>

\* the command up to its await readRows(...)
ChartStart ==
  /\ chart.pc = "received"
  /\ chart' = IF chart.msg.kind # "cumulative" /\ chart.msg.users = <<>>
                THEN ChartReply(chart, "usage")
                ELSE [chart EXCEPT !.pc = "reading"]
  /\ UNCHANGED unchart

\* getuser: readRows returns; on to the await of the chart image
GetUserRead ==
  /\ chart.pc = "reading"
  /\ chart.msg.kind = "getuser"
  /\ LET rows == store
         user == getUserPoints(rows, chart.msg.users[1])
         c == [chart EXCEPT !.rows = rows]
     IN  chart' =
           IF Len(rows) < 2 THEN ChartReply(c, "not enough data")
           ELSE IF ~user.found THEN ChartReply([c EXCEPT !.userA = user], "not found")
           ELSE IF Len(user.points) = 0 THEN ChartReply([c EXCEPT !.userA = user], "no data")
           ELSE [c EXCEPT !.pc = "rendering", !.userA = user]
  /\ UNCHANGED unchart

\* compare: readRows returns; on to the await of the chart image
CompareRead ==
  /\ chart.pc = "reading"
  /\ chart.msg.kind = "compare"
  /\ LET rows == store
         userA == getUserPoints(rows, chart.msg.users[1])
         userB == getUserPoints(rows, chart.msg.users[2])
         c == [chart EXCEPT !.rows = rows]
         cc == [c EXCEPT !.userA = userA, !.userB = userB]
     IN  chart' =
           IF Len(rows) < 2 THEN ChartReply(c, "not enough data")
           ELSE IF ~userA.found \/ ~userB.found THEN ChartReply(cc, "not found")
           ELSE IF Len(userA.points) = 0 \/ Len(userB.points) = 0
             THEN ChartReply(cc, "no data")
           ELSE [cc EXCEPT !.pc = "rendering",
                           !.aligned = alignSeries(userA.points, userB.points)]
  /\ UNCHANGED unchart

\* cumulative: readRows returns; on to the await of the chart image
CumulativeRead ==
  /\ chart.pc = "reading"
  /\ chart.msg.kind = "cumulative"
  /\ LET rows == store
         points == cumulativePoints(rows)
         c == [chart EXCEPT !.rows = rows]
     IN  chart' =
           IF Len(rows) < 2 THEN ChartReply(c, "not enough data")
           ELSE IF Len(points) = 0 THEN ChartReply([c EXCEPT !.points = points], "no data")
           ELSE [c EXCEPT !.pc = "rendering", !.points = points]
  /\ UNCHANGED unchart

\* the chart image arrives and is sent
ChartRendered ==
  /\ chart.pc = "rendering"
  /\ chart' = ChartReply(chart, "chart")
  /\ UNCHANGED unchart

\* readRows or the chart request throws: the handler's catch replies
ChartThrows ==
  /\ chart.pc \in {"reading", "rendering"}
  /\ chart' = ChartReply(chart, "something went wrong")
  /\ UNCHANGED unchart

NextChart ==
  \/ ChartStart
  \/ GetUserRead
  \/ CompareRead
  \/ CumulativeRead
  \/ ChartRendered
  \/ ChartThrows

SpecChart == InitChart /\ [][NextChart]_vars

(***************************************************************************)
(* Properties of the chart commands (specification SpecChart).             *)
(***************************************************************************)
\* the data rows (1-based positions in rows) whose name is the input's name
RowsNamed(rows, username) ==
  {r \in 2..Len(rows) : normalizeName(Cell(rows[r], 0)) = normalizeName(username)}

\* the calendar date a header text names, as <<year, month, day>>, or <<>>
HeaderDateKey(text) ==
  LET parts == SplitOn(trim(text), "/", <<>>, <<>>)
  IN  IF /\ Len(parts) = 3
         /\ \A n \in 1..3 : AllDigits(parts[n])
         /\ Len(parts[1]) \in {1, 2} /\ Len(parts[2]) \in {1, 2} /\ Len(parts[3]) \in {2, 4}
        THEN LET year == IF Len(parts[3]) = 2 THEN 2000 + NumberOf(parts[3], 0)
                         ELSE NumberOf(parts[3], 0)
                 month == NumberOf(parts[1], 0)
                 day == NumberOf(parts[2], 0)
             IN  IF /\ year \in 1000..9999
                    /\ month \in 1..12
                    /\ day \in 1..DaysInMonth(year, month)
                   THEN <<year, month, day>> ELSE <<>>
        ELSE <<>>

KeyOfDate(d) == <<d.year, d.month + 1, d.date>>

KeyBefore(a, b) ==
  \/ a[1] < b[1]
  \/ a[1] = b[1] /\ a[2] < b[2]
  \/ a[1] = b[1] /\ a[2] = b[2] /\ a[3] < b[3]

\* the digits-and-sign text of a cell: commas and outer blanks taken away
PlainCell(text) == trim(SelectSeq(text, LAMBDA ch : ch # ","))

IsNumberCell(text) ==
  LET t == PlainCell(text)
      body == IF t # <<>> /\ Head(t) \in {"-", "+"} THEN Tail(t) ELSE t
  IN  body # <<>> /\ AllDigits(body)

NumberCell(text) ==
  LET t == PlainCell(text)
  IN  IF Head(t) = "-" THEN 0 - NumberOf(Tail(t), 0)
      ELSE IF Head(t) = "+" THEN NumberOf(Tail(t), 0)
      ELSE NumberOf(t, 0)

DateColumns(rows) ==
  {c \in 1..(Len(rows[1]) - 1) : HeaderDateKey(Cell(rows[1], c)) # <<>>}

PointColumns(rows, r) ==
  {c \in DateColumns(rows) : IsNumberCell(Cell(rows[r], c))}

Ascending(points) ==
  \A i \in 1..Len(points), j \in 1..Len(points) :
    i < j => ~KeyBefore(KeyOfDate(points[j].date), KeyOfDate(points[i].date))

ExtractedRight(rows, username, user) ==
  IF RowsNamed(rows, username) = {} THEN ~user.found
  ELSE LET r == CHOOSE x \in RowsNamed(rows, username) :
                  \A y \in RowsNamed(rows, username) : x <= y
           cols == PointColumns(rows, r)
       IN  /\ user.found
           /\ user.displayName = Cell(rows[r], 0)
           /\ Len(user.points) = Cardinality(cols)
           /\ \E f \in [1..Len(user.points) -> cols] :
                /\ \A i \in 1..Len(user.points), j \in 1..Len(user.points) :
                     f[i] = f[j] => i = j
                /\ \A i \in 1..Len(user.points) :
                     /\ user.points[i].label = trim(Cell(rows[1], f[i]))
                     /\ KeyOfDate(user.points[i].date) = HeaderDateKey(Cell(rows[1], f[i]))
                     /\ user.points[i].value = NumberCell(Cell(rows[r], f[i]))
           /\ Ascending(user.points)

Extracted ==
  /\ chart.pc \in {"rendering", "done"}
  /\ chart.msg.kind \in {"getuser", "compare"}
  /\ Len(chart.rows) >= 2

\* C11: getUserPoints finds the first data row whose normalized name equals
\* the normalized input and reports not found when there is none, whatever
\* rows contain the input; the points of the row are, one for one, the header
\* columns >= 1 whose header is a valid date and whose cell in the row is a
\* finite number, each with the trimmed header as label and the cell's
\* number as value, in ascending date order.
C11_ExtractExactAndFiltered ==
  Extracted =>
    /\ ExtractedRight(chart.rows, chart.msg.users[1], chart.userA)
    /\ chart.msg.kind = "compare"
         => ExtractedRight(chart.rows, chart.msg.users[2], chart.userB)
    /\ (chart.msg.kind = "getuser" /\ RowsNamed(chart.rows, chart.msg.users[1]) = {})
         => chart.reply = "not found"

\* a player found below a row whose name contains the input, with a blank
\* cell under a dated column and a point under another
C11_Witness ==
  /\ chart.pc = "rendering"
  /\ chart.msg.kind = "getuser"
  /\ chart.userA.found
  /\ \E r \in RowsNamed(chart.rows, chart.msg.users[1]) :
       /\ \E q \in 2..(r - 1) :
            /\ q \notin RowsNamed(chart.rows, chart.msg.users[1])
            /\ includes(normalizeName(Cell(chart.rows[q], 0)),
                        normalizeName(chart.msg.users[1]))
       /\ \E c \in DateColumns(chart.rows) : trim(Cell(chart.rows[r], c)) = <<>>
  /\ Len(chart.userA.points) = 1

(***************************************************************************)
(* The alignment of the compare command on its own (specification          *)
(* SpecAlign): two series as getUserPoints delivers them, not empty and    *)
(* in ascending date order, of up to MaxPoints points each.                *)
(***************************************************************************)
MaxPoints == 2

HeaderMarch15 == <<"3","/","1","5","/","2","4">>

SeriesLabels == {trim(HeaderMarch1), HeaderMarch1Long, HeaderMarch8, HeaderMarch15}

PointsOf(values) ==
  {[label |-> l, date |-> parseSheetDate(l).date, value |-> v] :
     l \in SeriesLabels, v \in values}

SeriesOver(points) ==
  {ps \in UNION {[1..n -> points] : n \in 1..MaxPoints} :
     \A i \in 1..(Len(ps) - 1) : getTime(ps[i].date) <= getTime(ps[i + 1].date)}

SeriesA == SeriesOver(PointsOf({10, 20}))

SeriesB == SeriesOver(PointsOf({0, 30, 40}))

InitAlign ==
  /\ store = <<>>
  /\ calls = 0
  /\ used = 0
  /\ hist = NoCall
  /\ probe = NoProbe
  /\ race = NoRace
  /\ h = NoHandler
  /\ chart = NoChart
  /\ \E a \in SeriesA, b \in SeriesB :
       calc = [op |-> "align", a |-> a, b |-> b, out |-> NoAlignment]

Align ==
  /\ calc.op = "align"
  /\ calc' = [calc EXCEPT !.op = "aligned", !.out = alignSeries(calc.a, calc.b)]
  /\ UNCHANGED <<store, calls, used, hist, probe, race, h, chart>>

NextAlign == Align

SpecAlign == InitAlign /\ [][NextAlign]_vars

KeysOf(points) == {KeyOfDate(points[i].date) : i \in 1..Len(points)}

\* the position of key k among the keys, in date order
RankIn(keys, k) == 1 + Cardinality({x \in keys : KeyBefore(x, k)})

\* the value of the last point of the series at key k
LastValueAt(points, k) ==
  LET at == {i \in 1..Len(points) : KeyOfDate(points[i].date) = k}
  IN  points[CHOOSE i \in at : \A j \in at : j <= i].value

AlignedSeriesRight(points, keys, series) ==
  /\ Len(series) = Cardinality(keys)
  /\ \A k \in keys :
       IF k \in KeysOf(points)
         THEN series[RankIn(keys, k)] = [isNull |-> FALSE, value |-> LastValueAt(points, k)]
         ELSE series[RankIn(keys, k)].isNull

\* C12: the labels are one per distinct date of the two series, in
\* ascending date order, each the label of a point of that date; both value
\* sequences are as long as the labels; at each date a series has its value
\* when it has a point for the date (the last one when it has several) and
\* the absent marker otherwise, never 0 in its place.
C12_Alignment ==
  calc.op = "aligned" =>
    LET keys == KeysOf(calc.a) \cup KeysOf(calc.b)
        out == calc.out
    IN  /\ Len(out.labels) = Cardinality(keys)
        /\ \A k \in keys :
             /\ HeaderDateKey(out.labels[RankIn(keys, k)]) = k
             /\ \E i \in 1..Len(calc.a \o calc.b) :
                  (calc.a \o calc.b)[i].label = out.labels[RankIn(keys, k)]
        /\ AlignedSeriesRight(calc.a, keys, out.seriesA)
        /\ AlignedSeriesRight(calc.b, keys, out.seriesB)

\* A = [(d1,10),(d2,20)], B = [(d2,30),(d3,40)] aligned to labels
\* [d1,d2,d3], valuesA [10,20,absent], valuesB [absent,30,40]
C12_Witness ==
  /\ calc.op = "aligned"
  /\ calc.a = << [label |-> trim(HeaderMarch1), date |-> parseSheetDate(HeaderMarch1).date,
                  value |-> 10],
                 [label |-> HeaderMarch8, date |-> parseSheetDate(HeaderMarch8).date,
                  value |-> 20] >>
  /\ calc.b = << [label |-> HeaderMarch8, date |-> parseSheetDate(HeaderMarch8).date,
                  value |-> 30],
                 [label |-> HeaderMarch15, date |-> parseSheetDate(HeaderMarch15).date,
                  value |-> 40] >>
  /\ calc.out.labels = <<trim(HeaderMarch1), HeaderMarch8, HeaderMarch15>>
  /\ calc.out.seriesA = << [isNull |-> FALSE, value |-> 10],
                           [isNull |-> FALSE, value |-> 20], Null >>
  /\ calc.out.seriesB = << Null, [isNull |-> FALSE, value |-> 30],
                           [isNull |-> FALSE, value |-> 40] >>

\* the sum of the number cells of column c over the rows from r on
RECURSIVE SumOfColumn(_, _, _)
SumOfColumn(rows, c, r) ==
  IF r > Len(rows) THEN 0
  ELSE (IF IsNumberCell(Cell(rows[r], c)) THEN NumberCell(Cell(rows[r], c)) ELSE 0)
       + SumOfColumn(rows, c, r + 1)

Aggregated ==
  /\ chart.pc \in {"rendering", "done"}
  /\ chart.msg.kind = "cumulative"
  /\ Len(chart.rows) >= 2

\* C13: on a sheet with at least one data row the cumulative points are,
\* one for one, the header columns >= 1 whose label is a valid date, each
\* with the trimmed label and, as total, the sum over all data rows of the
\* cells of the column that are finite numbers (other cells add 0, a column
\* without any number cell has total 0), in ascending date order.
C13_CumulativeTotals ==
  Aggregated =>
    LET rows == chart.rows
        points == chart.points
        cols == DateColumns(rows)
    IN  /\ Len(points) = Cardinality(cols)
        /\ \E f \in [1..Len(points) -> cols] :
             /\ \A i \in 1..Len(points), j \in 1..Len(points) : f[i] = f[j] => i = j
             /\ \A i \in 1..Len(points) :
                  /\ points[i].label = trim(Cell(rows[1], f[i]))
                  /\ KeyOfDate(points[i].date) = HeaderDateKey(Cell(rows[1], f[i]))
                  /\ points[i].total = SumOfColumn(rows, f[i], 2)
        /\ Ascending(points)
        /\ (chart.reply = "no data") = (cols = {})

\* two data rows, a dated column in which one has a number and the other a
\* blank cell, and a column whose label is no date
C13_Witness ==
  /\ Aggregated
  /\ chart.pc = "rendering"
  /\ Len(chart.rows) = 3
  /\ Len(chart.rows[1]) = 3
  /\ Cardinality(DateColumns(chart.rows)) = 1
  /\ \E c \in DateColumns(chart.rows) :
       /\ IsNumberCell(Cell(chart.rows[2], c))
       /\ trim(Cell(chart.rows[3], c)) = <<>>
       /\ chart.points = << [label |-> trim(Cell(chart.rows[1], c)),
                             date |-> parseSheetDate(Cell(chart.rows[1], c)).date,
                             total |-> NumberCell(Cell(chart.rows[2], c))] >>

(***************************************************************************)
(* A command date on its way to a header and back (specification           *)
(* SpecDate): parseN8nDate, isoToSheetDateLabel, parseSheetDate.           *)
(***************************************************************************)
MonthTexts == { <<"1">>, <<"2">>, <<"0","2">>, <<"4">>, <<"1","2">>, <<"1","3">>,
                <<"0">>, <<"0","0">> }

DayTexts == { <<"1">>, <<"5">>, <<"0","5">>, <<"2","9">>, <<"3","0">>, <<"3","1">>,
              <<"3","2">>, <<"0">> }

YearTexts == { <<"0","0">>, <<"2","3">>, <<"2","4">>, <<"2","6">>, <<"6">>,
               <<"2","0","2","4">> }

OddTokens ==
  { <<>>, <<"3","/","/","2","4">>, <<"3","-","1","-","2","4">>,
    <<"a","/","1","/","2","4">>, <<"3","/","1","/","2","4","/","1">>,
    <<"0","0","3","/","1","/","2","4">>, <<"3","/","1","/","2","4"," ">> }

CommandTokens ==
  {m \o <<"/">> \o d \o <<"/">> \o y : m \in MonthTexts, d \in DayTexts, y \in YearTexts}
  \cup OddTokens

InitDate ==
  /\ store = <<>>
  /\ calls = 0
  /\ used = 0
  /\ hist = NoCall
  /\ probe = NoProbe
  /\ race = NoRace
  /\ h = NoHandler
  /\ chart = NoChart
  /\ \E raw \in CommandTokens :
       calc = [op |-> "token", raw |-> raw, parsed |-> NoDate, label |-> <<>>,
               back |-> NoSheetDate]

undate == <<store, calls, used, hist, probe, race, h, chart>>

\* parseN8nDate(dateToken)
ParseToken ==
  /\ calc.op = "token"
  /\ LET parsed == parseN8nDate(calc.raw)
     IN  calc' = [calc EXCEPT !.op = IF parsed.ok THEN "parsed" ELSE "rejected",
                              !.parsed = parsed]
  /\ UNCHANGED undate

\* isoToSheetDateLabel(parsedDate.isoDate)
FormatLabel ==
  /\ calc.op = "parsed"
  /\ calc' = [calc EXCEPT !.op = "labelled",
                          !.label = isoToSheetDateLabel(calc.parsed.isoDate)]
  /\ UNCHANGED undate

\* parseSheetDate(label), the label read back as a header
ParseLabel ==
  /\ calc.op = "labelled"
  /\ calc' = [calc EXCEPT !.op = "back", !.back = parseSheetDate(calc.label)]
  /\ UNCHANGED undate

NextDate ==
  \/ ParseToken
  \/ FormatLabel
  \/ ParseLabel

SpecDate == InitDate /\ [][NextDate]_vars

\* the three numbers of a token of the form digits/digits/digits
TokenPart(raw, n) == NumberOf(SplitOn(raw, "/", <<>>, <<>>)[n], 0)

TwoDigits(n) == <<DigitChars[(n \div 10) + 1], DigitChars[(n % 10) + 1]>>

Unpadded(n) == IF n < 10 THEN <<DigitChars[n + 1]>> ELSE TwoDigits(n)

\* C14: for a valid command date, the header label made from it is
\* month/day/year with month and day unpadded and the year as two digits,
\* and reading that label back as a header gives the calendar date of the
\* first parse: year 2000 + YY, the month, the day.
C14_DateRoundTrip ==
  /\ calc.op \in {"labelled", "back"} =>
       calc.label = Unpadded(TokenPart(calc.raw, 1)) \o <<"/">>
                    \o Unpadded(TokenPart(calc.raw, 2)) \o <<"/">>
                    \o TwoDigits(TokenPart(calc.raw, 3))
  /\ calc.op = "back" =>
       /\ calc.back.ok
       /\ KeyOfDate(calc.back.date)
            = <<2000 + TokenPart(calc.raw, 3), TokenPart(calc.raw, 1), TokenPart(calc.raw, 2)>>
       /\ HeaderDateKey(calc.label) = KeyOfDate(calc.back.date)

\* 02/05/26 became the label 2/5/26 and was read back as 5 February 2026
C14_Witness ==
  /\ calc.op = "back"
  /\ calc.raw = <<"0","2","/","0","5","/","2","6">>
  /\ calc.label = <<"2","/","5","/","2","6">>
  /\ calc.back = [ok |-> TRUE, date |-> [year |-> 2026, month |-> 1, date |-> 5]]

\* C15: parseN8nDate succeeds exactly on the texts M/D/YY (month and day of
\* one or two digits, year of exactly two) that name a day of the calendar
\* in year 2000 + YY, and the date it gives is that year, month and day,
\* whatever the zero padding of the text; 02/30/26 and 13/01/26 fail.
C15_CommandDateExact ==
  calc.op # "token" =>
    /\ calc.parsed.ok = RealCommandDate(calc.raw)
    /\ calc.parsed.ok =>
         calc.parsed.isoDate
           = TwoDigits(20) \o TwoDigits(TokenPart(calc.raw, 3)) \o <<"-">>
             \o TwoDigits(TokenPart(calc.raw, 1)) \o <<"-">>
             \o TwoDigits(TokenPart(calc.raw, 2))
    /\ calc.raw \in {TokenFeb30, TokenMonth13} => ~calc.parsed.ok

\* 2/5/26 was parsed to the date that 02/05/26 gives
C15_Witness ==
  /\ calc.op = "parsed"
  /\ calc.raw = <<"2","/","5","/","2","6">>
  /\ calc.parsed.isoDate = <<"2","0","2","6","-","0","2","-","0","5">>
  /\ calc.parsed = parseN8nDate(<<"0","2","/","0","5","/","2","6">>)

(***************************************************************************)
(* Column labels on their own (specification SpecLabel): columnLabel on    *)
(* the column numbers 1..MaxColumn, the columns a read of A1:ZZ can show.  *)
(***************************************************************************)
MaxColumn == 702

InitLabel ==
  /\ store = <<>>
  /\ calls = 0
  /\ used = 0
  /\ hist = NoCall
  /\ probe = NoProbe
  /\ race = NoRace
  /\ h = NoHandler
  /\ chart = NoChart
  /\ \E n \in 1..MaxColumn : calc = [op |-> "column", n |-> n, label |-> <<>>]

LabelColumn ==
  /\ calc.op = "column"
  /\ calc' = [calc EXCEPT !.op = "label", !.label = columnLabel(calc.n)]
  /\ UNCHANGED <<store, calls, used, hist, probe, race, h, chart>>

NextLabel == LabelColumn

SpecLabel == InitLabel /\ [][NextLabel]_vars

LetterNumber(c) == CHOOSE i \in 1..26 : UpperLetters[i] = c

\* the value of a letter string read as digits 1..26, most significant first
RECURSIVE Bijective26(_)
Bijective26(label) ==
  IF label = <<>> THEN 0
  ELSE 26 * Bijective26(SubSeq(label, 1, Len(label) - 1)) + LetterNumber(label[Len(label)])

\* C16: the label of column n is a string over A..Z whose value in
\* bijective base 26 (A = 1 ... Z = 26) is n, so no two numbers share a
\* label; it has one letter for 1..26 and two for 27..702; 1 is A, 26 is Z,
\* 27 is AA, 52 is AZ, 702 is ZZ.
C16_BijectiveBase26 ==
  calc.op = "label" =>
    /\ \A i \in 1..Len(calc.label) : \E k \in 1..26 : UpperLetters[k] = calc.label[i]
    /\ Bijective26(calc.label) = calc.n
    /\ (Len(calc.label) = 1) = (calc.n \in 1..26)
    /\ (Len(calc.label) = 2) = (calc.n \in 27..702)
    /\ calc.n = 1 => calc.label = <<"A">>
    /\ calc.n = 26 => calc.label = <<"Z">>
    /\ calc.n = 27 => calc.label = <<"A", "A">>
    /\ calc.n = 52 => calc.label = <<"A", "Z">>
    /\ calc.n = 702 => calc.label = <<"Z", "Z">>

\* column 702 was labelled ZZ
C16_Witness ==
  /\ calc.op = "label"
  /\ calc.n = 702
  /\ calc.label = <<"Z", "Z">>

(***************************************************************************)
(* The frame of an upsert (specification Spec).                            *)
(***************************************************************************)
\* the content of the cell at 0-based row r and column c, empty where the
\* grid has none
GridCell(grid, r, c) == IF r + 1 <= Len(grid) THEN Cell(grid[r + 1], c) ELSE <<>>

GridWidth(grid) ==
  IF grid = <<>> THEN 0
  ELSE LET widths == {Len(grid[i]) : i \in 1..Len(grid)}
       IN  CHOOSE w \in widths : \A v \in widths : v <= w

ResolvedTo(plan, r) == \E k \in 1..Len(plan.rows) : plan.rows[k] = r

AppendedAt(plan, r) == \E k \in 1..Len(plan.rows) : plan.rows[k] = r /\ plan.created[k]

MayChange(plan, r, c) ==
  \/ r = 0 /\ c = 0
  \/ r = 0 /\ c = plan.dateCol
  \/ c = plan.dateCol /\ ResolvedTo(plan, r)
  \/ c = 0 /\ AppendedAt(plan, r)

\* C17: an upsert of a non-empty batch changes the content of no cell but
\* A1, the header cell of the target date column, the target-date cells of
\* the rows its entries resolved to, and the column-A cells of the rows it
\* appended: the score cells of the other date columns, the score cells of
\* the other rows and the names of the rows that were there before, also of
\* one reached by a fuzzy match, are as they were.
C17_UpsertFrame ==
  Upserted =>
    /\ \A r \in 0..Max(Len(hist.pre), Len(store)),
          c \in 0..Max(GridWidth(hist.pre), GridWidth(store)) :
         GridCell(store, r, c) # GridCell(hist.pre, r, c) => MayChange(hist.plan, r, c)
    /\ \A r \in DataRows(hist.pre) :
         /\ GridCell(store, r, 0) = GridCell(hist.pre, r, 0)
         /\ ~AppendedAt(hist.plan, r)

\* an entry went to an existing row by fuzzy match, another appended a row,
\* and the sheet had a score in another date column
C17_Witness ==
  /\ Upserted
  /\ \E k \in 1..Len(hist.scores) :
       /\ ~hist.plan.created[k]
       /\ FuzzyAt(hist.plan, hist.scores, k)
       /\ hist.plan.rows[k] \in DataRows(hist.pre)
       /\ GridCell(hist.pre, hist.plan.rows[k], 0)
            # normalizeName(GridCell(hist.pre, hist.plan.rows[k], 0))
  /\ \E k \in 1..Len(hist.scores) : hist.plan.created[k]
  /\ \E r \in DataRows(hist.pre), c \in 1..GridWidth(hist.pre) :
       /\ c # hist.plan.dateCol
       /\ GridCell(hist.pre, r, c) # <<>>
       /\ GridCell(store, r, c) = GridCell(hist.pre, r, c)

====
